---- MODULE Spec2Model ----
(***************************************************************************)
(* Model of the three RunPod serverless handlers of this repository:       *)
(*   src/runpod-handler/handler.py            (TripoSR)                    *)
(*   src/runpod-handler-sf3d/handler.py       (SF3D)                       *)
(*   src/runpod-handler-hunyuan3d/handler.py  (Hunyuan3D-2)                *)
(* One worker process runs one of the three handler modules and handles    *)
(* jobs one at a time.  The module-level globals of the handler module are *)
(* the state; one action is one whole call of handler(event).              *)
(***************************************************************************)
EXTENDS Integers, Sequences, FiniteSets, TLC

VARIABLES worker, pc, jobs, event, resp, model, rembg_session, SF3D,
          shape_pipeline, paint_pipeline, HY3D_PROFILE, tempfiles, obs, hist

vars == <<worker, pc, jobs, event, resp, model, rembg_session, SF3D,
          shape_pipeline, paint_pipeline, HY3D_PROFILE, tempfiles, obs, hist>>

\* Bound of the model: how many jobs one worker process handles.
MaxJobs == 2

(***************************************************************************)
(* Python values.  Every value is a record of one shape: t is the Python   *)
(* type, n the number of an int or bool, s the text of a str, f the value  *)
(* of a float.  A float is a number of hundredths, or nan, inf or -inf.    *)
(***************************************************************************)
Fin(h) == [k |-> "fin", h |-> h]
NaN == [k |-> "nan", h |-> 0]
PosInf == [k |-> "inf", h |-> 1]
NegInf == [k |-> "inf", h |-> -1]

PyVal(t, n, s, f) == [t |-> t, n |-> n, s |-> s, f |-> f]
Absent == PyVal("absent", 0, "", Fin(0))
PyNone == PyVal("NoneType", 0, "", Fin(0))
PyInt(i) == PyVal("int", i, "", Fin(0))
PyBool(b) == PyVal("bool", IF b THEN 1 ELSE 0, "", Fin(0))
PyStr(x) == PyVal("str", 0, x, Fin(0))
PyFloat(x) == PyVal("float", 0, "", x)
PyDict == PyVal("dict", 0, "", Fin(0))

\* Python's truth value of an object (bool(v)); an absent key reads as None.
Truthy(v) ==
    CASE v.t = "absent" -> FALSE
      [] v.t = "NoneType" -> FALSE
      [] v.t = "int" -> v.n # 0
      [] v.t = "bool" -> v.n # 0
      [] v.t = "str" -> v.s # ""
      [] v.t = "float" -> ~(v.f.k = "fin" /\ v.f.h = 0)
      [] OTHER -> TRUE

\* IEEE comparisons as Python's < and > compute them: false when either is nan.
FLess(a, b) ==
    /\ a.k # "nan"
    /\ b.k # "nan"
    /\ CASE a.k = "fin" /\ b.k = "fin" -> a.h < b.h
         [] a.k = "inf" /\ b.k = "fin" -> a.h < 0
         [] a.k = "fin" /\ b.k = "inf" -> b.h > 0
         [] OTHER -> a.h < b.h

FGreater(a, b) == FLess(b, a)

(***************************************************************************)
(* Text.  A text is a sequence of atoms: an atom is one character, or a    *)
(* fixed piece that holds no letters of "out of memory" to be found (the   *)
(* literal prefix of a message, or a quoted value).                        *)
(***************************************************************************)
OutOfMemoryText ==
    <<"o", "u", "t", " ", "o", "f", " ", "m", "e", "m", "o", "r", "y">>

LowerOf ==
    [c \in {"O", "M"} |-> IF c = "O" THEN "o" ELSE "m"]

\* str.lower() on a text
Lower(txt) ==
    [i \in 1..Len(txt) |->
        IF txt[i] \in DOMAIN LowerOf THEN LowerOf[txt[i]] ELSE txt[i]]

\* needle in txt
Contains(txt, needle) ==
    \E i \in 0..(Len(txt) - Len(needle)) :
        \A j \in 1..Len(needle) : txt[i + j] = needle[j]

\* str.lower() on the option strings the handlers lower-case
LowerStr ==
    [x \in {"glb", "GLB", "obj", "OBJ", "none", "Quad", "triangle"} |->
        CASE x = "GLB" -> "glb"
          [] x = "OBJ" -> "obj"
          [] x = "Quad" -> "quad"
          [] OTHER -> x]

(***************************************************************************)
(* Exceptions.  The result of evaluating something is Ok(value) or         *)
(* Raise(exception); an exception has its class and its text (str(e)).     *)
(***************************************************************************)
Exc(cls, msg) == [cls |-> cls, msg |-> msg]
Ok(v) == [ok |-> TRUE, val |-> v, exc |-> Exc("", <<>>)]
Raise(e) == [ok |-> FALSE, val |-> Absent, exc |-> e]

\* float(v)
FloatLiteral ==
    [x \in {"0.7", "nan", "inf", "-inf"} |->
        CASE x = "0.7" -> Fin(70)
          [] x = "nan" -> NaN
          [] x = "-inf" -> NegInf
          [] OTHER -> PosInf]

float(v) ==
    CASE v.t = "float" -> Ok(v.f)
      [] v.t = "int" -> Ok(Fin(100 * v.n))
      [] v.t = "bool" -> Ok(Fin(100 * v.n))
      [] v.t = "str" ->
            IF v.s \in DOMAIN FloatLiteral
            THEN Ok(FloatLiteral[v.s])
            ELSE Raise(Exc("ValueError",
                           <<"could not convert string to float: ", v.s>>))
      [] OTHER ->
            Raise(Exc("TypeError",
                      <<"float() argument must be a string or a real number, not ", v.t>>))

\* int(v): truncation towards zero for a float, parsing for a str
IntLiteral ==
    [x \in {"128", "2048", "4"} |->
        CASE x = "128" -> 128
          [] x = "2048" -> 2048
          [] OTHER -> 4]

Trunc(h) == IF h >= 0 THEN h \div 100 ELSE -((-h) \div 100)

int(v) ==
    CASE v.t = "int" -> Ok(v.n)
      [] v.t = "bool" -> Ok(v.n)
      [] v.t = "float" ->
            CASE v.f.k = "fin" -> Ok(Trunc(v.f.h))
              [] v.f.k = "nan" ->
                    Raise(Exc("ValueError", <<"cannot convert float NaN to integer">>))
              [] OTHER ->
                    Raise(Exc("OverflowError", <<"cannot convert float infinity to integer">>))
      [] v.t = "str" ->
            IF v.s \in DOMAIN IntLiteral
            THEN Ok(IntLiteral[v.s])
            ELSE Raise(Exc("ValueError",
                           <<"invalid literal for int() with base 10: ", v.s>>))
      [] OTHER ->
            Raise(Exc("TypeError",
                      <<"int() argument must be a string, a bytes-like object or a real number, not ", v.t>>))

\* v.lower() of an option value
lower(v) ==
    IF v.t = "str"
    THEN Ok(LowerStr[v.s])
    ELSE Raise(Exc("AttributeError", <<v.t, " object has no attribute 'lower'">>))

\* d.get(key, default) on the job's input dict: a record of all option keys,
\* an option the job does not carry being Absent.
Get(d, key, default) == IF d[key] = Absent THEN default ELSE d[key]

(***************************************************************************)
(* Module globals and what a job leaves behind.                            *)
(* A model singleton is None or an instance: id numbers the from_pretrained*)
(* call that made it, cfg says the call that configures it returned        *)
(* (renderer.set_chunk_size / eval), cuda that .to("cuda") returned, env    *)
(* the HY3D_PROFILE of the environment it was loaded under (0: none).      *)
(* rembg_session is 0 (None) or the number of the session.                 *)
(***************************************************************************)
None == [id |-> 0, cfg |-> FALSE, cuda |-> FALSE, env |-> 0]
Instance(id, cfg, cuda, env) == [id |-> id, cfg |-> cfg, cuda |-> cuda, env |-> env]

Singletons == {"model", "shape_pipeline", "paint_pipeline"}

\* What one call of handler() did: the calls it made to the libraries.
NoObs ==
    [bg |-> FALSE,       \* background removal invoked
     resize |-> <<>>,    \* ratio passed to resize_foreground
     load |-> FALSE,     \* the load step was reached
     fp |-> {},          \* singletons from_pretrained was called for
     got |-> <<>>,       \* instance ids the load step returned
     infer |-> FALSE,    \* the inference pipeline was invoked
     arg |-> <<>>,       \* resolution (or memory profile) the inference ran with
     mesh |-> FALSE,     \* the inference pipeline returned a mesh
     paint |-> FALSE,    \* the texture pipeline was invoked on the mesh
     mkstemp |-> 0,      \* temp files created
     decoded |-> FALSE,  \* the image was decoded and opened
     raised |-> <<>>]    \* the exception that reached the except clauses of handler()

\* What the jobs of the process did so far.
NoHist ==
    [fpCalls |-> [m \in Singletons |-> 0],     \* calls of from_pretrained
     fpOk |-> [m \in Singletons |-> 0],        \* calls that returned
     firstReach |-> [m \in Singletons |-> 0],  \* first job that reached the load step
     loadedBy |-> [m \in Singletons |-> 0],    \* job whose from_pretrained returned
     sessions |-> 0]                           \* rembg sessions made

\* A fault: the library call that raises in this job (if reached), and what.
NoFault == [step |-> "none", exc |-> Exc("", <<>>)]

Exceptions ==
    { Exc("OutOfMemoryError", <<"CUDA ">> \o OutOfMemoryText),
      Exc("RuntimeError", <<"CUDA ", "O", "u", "t", " ", "O", "f", " ", "M", "e", "m", "o", "r", "y">>),
      Exc("RuntimeError", <<"disk full">>) }

(***************************************************************************)
(* Responses: a function from the keys of the returned dict.               *)
(***************************************************************************)
NoResp == [none |-> TRUE]
ErrorResp(txt) == [error |-> txt]

NoImageText ==
    <<"No image provided. Include 'image' key with base64 encoded image.">>

\* base64.b64decode(image_b64) and Image.open(...) on the image values of
\* the model: what the libraries do with each.
DecodeImage(v) ==
    CASE v.t # "str" ->
            Raise(Exc("TypeError",
                      <<"argument should be a bytes-like object or ASCII string, not ", v.t>>))
      [] v.s = "iVBORw0KGgo=" -> Ok(v)
      [] v.s = "aGVsbG8=" ->
            Raise(Exc("UnidentifiedImageError", <<"cannot identify image file">>))
      [] OTHER -> Raise(Exc("Error", <<"Incorrect padding">>))

DecodeFailed(e) == ErrorResp(<<"Failed to decode image: ">> \o e.msg)

(***************************************************************************)
(* TripoSR: src/runpod-handler/handler.py                                  *)
(***************************************************************************)
\* load_model() without its test of the global: every call loads
triposr_model_never_cached(m) == TRUE

\* "if model is None" of load_model()
triposr_model_is_None(m) == m = None

triposr_load_model(S, fault, jobNo) ==
    LET S1 == [S EXCEPT !.obs.load = TRUE,
                        !.hist.firstReach.model = IF @ = 0 THEN jobNo ELSE @]
        fresh == S.hist.fpCalls.model + 1
        S2 == [S1 EXCEPT !.hist.fpCalls.model = fresh,
                         !.obs.fp = @ \cup {"model"}]
        S3 == [S2 EXCEPT !.hist.fpOk.model = @ + 1,
                         !.hist.loadedBy.model = jobNo]
    IN  IF ~triposr_model_is_None(S.model)
        THEN [s |-> [S1 EXCEPT !.obs.got = <<S.model.id>>], exc |-> NoFault.exc, ok |-> TRUE]
        ELSE IF fault.step = "from_pretrained"
        THEN [s |-> S2, exc |-> fault.exc, ok |-> FALSE]
        ELSE IF fault.step = "set_chunk_size"
        THEN [s |-> [S3 EXCEPT !.model = Instance(fresh, FALSE, FALSE, 0)],
              exc |-> fault.exc, ok |-> FALSE]
        ELSE IF fault.step = "to_cuda"
        THEN [s |-> [S3 EXCEPT !.model = Instance(fresh, TRUE, FALSE, 0)],
              exc |-> fault.exc, ok |-> FALSE]
        ELSE [s |-> [S3 EXCEPT !.model = Instance(fresh, TRUE, TRUE, 0),
                               !.obs.got = <<fresh>>],
              exc |-> NoFault.exc, ok |-> TRUE]

\* the validation of foreground_ratio (both handlers that take it)
ClampForegroundRatio(r) ==
    IF FLess(r, Fin(50)) \/ FGreater(r, Fin(100)) THEN Fin(85) ELSE r

\* a range test in place of the membership test
triposr_clamp_mc_resolution_range(n) ==
    IF n < 128 \/ n > 512 THEN 256 ELSE n

triposr_clamp_mc_resolution(n) ==
    IF n \notin {128, 256, 512} THEN 256 ELSE n

triposr_clamp_output_format(x) ==
    IF x \notin {"glb", "obj"} THEN "glb" ELSE x

\* the second except clause catching RuntimeError only: the rest escapes
triposr_except_runtime_only(e) ==
    CASE e.cls = "OutOfMemoryError" ->
            ErrorResp(<<"GPU out of memory. Try a lower resolution (128 or 256).">>)
      [] e.cls = "RuntimeError" -> ErrorResp(<<"Generation failed: ">> \o e.msg)
      [] OTHER -> [escaped |-> e.cls]

\* the two except clauses of handler()
triposr_except(e) ==
    IF e.cls = "OutOfMemoryError"
    THEN ErrorResp(<<"GPU out of memory. Try a lower resolution (128 or 256).">>)
    ELSE ErrorResp(<<"Generation failed: ">> \o e.msg)

\* handler() returns from an except clause: e is what was raised, St what the
\* job had done by then
triposr_caught(St, e) ==
    [s |-> [St EXCEPT !.obs.raised = <<e>>], resp |-> triposr_except(e)]

FiveMB == 5 * 1024 * 1024

triposr_success(file_size, output_format) ==
    IF file_size < FiveMB
    THEN [model_base64 |-> <<"base64", file_size>>, file_size |-> file_size,
          vertices |-> 1, faces |-> 1, format |-> output_format,
          execution_time |-> 1]
    ELSE [model_base64 |-> <<"base64", file_size>>, file_size |-> file_size,
          vertices |-> 1, faces |-> 1, format |-> output_format,
          execution_time |-> 1,
          warning |-> "Large file returned as base64. Consider using S3 for production."]

\* preprocess_image, generate_mesh, export_mesh and the return of handler()
triposr_generate(S, fault, jobNo, ratio, mc_resolution, output_format, file_size) ==
    LET Sbg == [S EXCEPT !.obs.bg = TRUE]
        Srs == [Sbg EXCEPT !.obs.resize = <<ratio>>]
        ld == triposr_load_model(Srs, fault, jobNo)
        Sinf == [ld.s EXCEPT !.obs.infer = TRUE]
        Sex == [Sinf EXCEPT !.obs.arg = <<mc_resolution>>]
        Stmp == [Sex EXCEPT !.obs.mesh = TRUE, !.obs.mkstemp = @ + 1]
        fail(St) == triposr_caught(St, fault.exc)
    IN  CASE fault.step = "remove_background" -> fail(Sbg)
          [] fault.step = "resize_foreground" -> fail(Srs)
          [] ~ld.ok -> triposr_caught(ld.s, ld.exc)
          [] fault.step = "inference" -> fail(Sinf)
          [] fault.step = "extract_mesh" -> fail(Sex)
          [] fault.step = "export" -> fail([Stmp EXCEPT !.tempfiles = @ + 1])
          [] OTHER -> [s |-> Stmp, resp |-> triposr_success(file_size, output_format)]

triposr_handler(S, ev, fault, jobNo, file_size) ==
    LET input_data == ev.opts
        image_b64 == Get(input_data, "image", PyNone)
        fr == float(Get(input_data, "foreground_ratio", PyFloat(Fin(85))))
        mc == int(Get(input_data, "mc_resolution", PyInt(256)))
        fmt == lower(Get(input_data, "output_format", PyStr("glb")))
        image == DecodeImage(image_b64)
    IN  CASE ev.input \notin {Absent, PyDict} ->
                triposr_caught(S,
                    Exc("AttributeError", <<ev.input.t, " object has no attribute 'get'">>))
          [] ~fr.ok -> triposr_caught(S, fr.exc)
          [] ~mc.ok -> triposr_caught(S, mc.exc)
          [] ~fmt.ok -> triposr_caught(S, fmt.exc)
          [] ~Truthy(image_b64) -> [s |-> S, resp |-> ErrorResp(NoImageText)]
          [] ~image.ok -> [s |-> S, resp |-> DecodeFailed(image.exc)]
          [] OTHER ->
                triposr_generate([S EXCEPT !.obs.decoded = TRUE], fault, jobNo,
                                 ClampForegroundRatio(fr.val),
                                 triposr_clamp_mc_resolution(mc.val),
                                 triposr_clamp_output_format(fmt.val),
                                 file_size)

(***************************************************************************)
(* SF3D: src/runpod-handler-sf3d/handler.py                                *)
(***************************************************************************)
\* lazy_import(): the imports run while the global SF3D is None
sf3d_lazy_import(S, fault) ==
    IF S.SF3D
    THEN [s |-> S, exc |-> NoFault.exc, ok |-> TRUE]
    ELSE IF fault.step = "import"
    THEN [s |-> S, exc |-> fault.exc, ok |-> FALSE]
    ELSE [s |-> [S EXCEPT !.SF3D = TRUE], exc |-> NoFault.exc, ok |-> TRUE]

sf3d_remove_background(S, fault) ==
    LET imp == sf3d_lazy_import(S, fault)
        fresh == imp.s.hist.sessions + 1
        S1 == IF imp.s.rembg_session = 0
              THEN [imp.s EXCEPT !.rembg_session = fresh, !.hist.sessions = fresh]
              ELSE imp.s
        S2 == [S1 EXCEPT !.obs.bg = TRUE]
    IN  IF ~imp.ok
        THEN imp
        ELSE IF imp.s.rembg_session = 0 /\ fault.step = "new_session"
        THEN [s |-> imp.s, exc |-> fault.exc, ok |-> FALSE]
        ELSE IF fault.step = "remove_background"
        THEN [s |-> S2, exc |-> fault.exc, ok |-> FALSE]
        ELSE [s |-> S2, exc |-> NoFault.exc, ok |-> TRUE]

\* resize_foreground(image, ratio): new_size = int(max(old_size) / ratio)
sf3d_resize_foreground(S, ratio) ==
    LET S1 == [S EXCEPT !.obs.resize = <<ratio>>]
    IN  IF ratio.k = "nan"
        THEN [s |-> S1, ok |-> FALSE,
              exc |-> Exc("ValueError", <<"cannot convert float NaN to integer">>)]
        ELSE [s |-> S1, exc |-> NoFault.exc, ok |-> TRUE]

sf3d_load_model(S, fault, jobNo) ==
    LET imp == sf3d_lazy_import(S, fault)
        S1 == [imp.s EXCEPT !.obs.load = TRUE,
                            !.hist.firstReach.model = IF @ = 0 THEN jobNo ELSE @]
        fresh == S.hist.fpCalls.model + 1
        S2 == [S1 EXCEPT !.hist.fpCalls.model = fresh,
                         !.obs.fp = @ \cup {"model"}]
        S3 == [S2 EXCEPT !.hist.fpOk.model = @ + 1,
                         !.hist.loadedBy.model = jobNo]
        session == S3.hist.sessions + 1
        S4 == [S3 EXCEPT !.model = Instance(fresh, TRUE, TRUE, 0)]
    IN  IF ~imp.ok
        THEN imp
        ELSE IF S.model # None
        THEN [s |-> [S1 EXCEPT !.obs.got = <<S.model.id>>], exc |-> NoFault.exc, ok |-> TRUE]
        ELSE IF fault.step = "from_pretrained"
        THEN [s |-> S2, exc |-> fault.exc, ok |-> FALSE]
        ELSE IF fault.step = "to_cuda"
        THEN [s |-> [S3 EXCEPT !.model = Instance(fresh, FALSE, FALSE, 0)],
              exc |-> fault.exc, ok |-> FALSE]
        ELSE IF fault.step = "eval"
        THEN [s |-> [S3 EXCEPT !.model = Instance(fresh, FALSE, TRUE, 0)],
              exc |-> fault.exc, ok |-> FALSE]
        ELSE IF fault.step = "new_session_load"
        THEN [s |-> S4, exc |-> fault.exc, ok |-> FALSE]
        ELSE [s |-> [S4 EXCEPT !.rembg_session = session,
                               !.hist.sessions = session,
                               !.obs.got = <<fresh>>],
              exc |-> NoFault.exc, ok |-> TRUE]

sf3d_clamp_texture_resolution(n) ==
    LET lo == IF 2048 < n THEN 2048 ELSE n   \* min(2048, n)
    IN  IF 512 > lo THEN 512 ELSE lo         \* max(512, ...)

sf3d_clamp_remesh_option(x) ==
    IF x \notin {"none", "triangle", "quad"} THEN "none" ELSE x

\* the test of the message without .lower()
sf3d_except_case_sensitive(e) ==
    IF Contains(e.msg, OutOfMemoryText)
    THEN ErrorResp(<<"GPU out of memory. Try a lower texture_resolution (512 or 1024).">>)
    ELSE ErrorResp(<<"Generation failed: ">> \o e.msg)

\* the except clause of handler()
sf3d_except(e) ==
    IF Contains(Lower(e.msg), OutOfMemoryText)
    THEN ErrorResp(<<"GPU out of memory. Try a lower texture_resolution (512 or 1024).">>)
    ELSE ErrorResp(<<"Generation failed: ">> \o e.msg)

sf3d_caught(St, e) ==
    [s |-> [St EXCEPT !.obs.raised = <<e>>], resp |-> sf3d_except(e)]

sf3d_success(file_size, texture_resolution) ==
    [model_base64 |-> <<"base64", file_size>>, file_size |-> file_size,
     format |-> "glb", texture_resolution |-> texture_resolution,
     execution_time |-> 1]

\* preprocessing, load_model, run_image, the export and the return of handler()
sf3d_generate(S, fault, jobNo, ratio, texture_resolution, remesh_option, file_size) ==
    LET bg == sf3d_remove_background(S, fault)
        rs == sf3d_resize_foreground(bg.s, ratio)
        ld == sf3d_load_model(rs.s, fault, jobNo)
        Sinf == [ld.s EXCEPT !.obs.infer = TRUE,
                             !.obs.arg = <<texture_resolution>>]
        Stmp == [Sinf EXCEPT !.obs.mesh = TRUE, !.obs.mkstemp = @ + 1]
        fail(St) == sf3d_caught(St, fault.exc)
    IN  CASE ~bg.ok -> sf3d_caught(bg.s, bg.exc)
          [] ~rs.ok -> sf3d_caught(rs.s, rs.exc)
          [] ~ld.ok -> sf3d_caught(ld.s, ld.exc)
          [] fault.step = "inference" -> fail(Sinf)
          [] fault.step = "export" -> fail([Stmp EXCEPT !.tempfiles = @ + 1])
          [] OTHER -> [s |-> Stmp, resp |-> sf3d_success(file_size, texture_resolution)]

sf3d_handler(S, ev, fault, jobNo, file_size) ==
    LET input_data == ev.opts
        image_b64 == Get(input_data, "image", PyNone)
        fr == float(Get(input_data, "foreground_ratio", PyFloat(Fin(85))))
        tr == int(Get(input_data, "texture_resolution", PyInt(1024)))
        rm == lower(Get(input_data, "remesh_option", PyStr("none")))
        image == DecodeImage(image_b64)
    IN  CASE ev.input \notin {Absent, PyDict} ->
                sf3d_caught(S,
                    Exc("AttributeError", <<ev.input.t, " object has no attribute 'get'">>))
          [] ~fr.ok -> sf3d_caught(S, fr.exc)
          [] ~tr.ok -> sf3d_caught(S, tr.exc)
          [] ~rm.ok -> sf3d_caught(S, rm.exc)
          [] ~Truthy(image_b64) -> [s |-> S, resp |-> ErrorResp(NoImageText)]
          [] ~image.ok -> [s |-> S, resp |-> DecodeFailed(image.exc)]
          [] OTHER ->
                sf3d_generate([S EXCEPT !.obs.decoded = TRUE], fault, jobNo,
                              ClampForegroundRatio(fr.val),
                              sf3d_clamp_texture_resolution(tr.val),
                              sf3d_clamp_remesh_option(rm.val),
                              file_size)

(***************************************************************************)
(* Hunyuan3D-2: src/runpod-handler-hunyuan3d/handler.py                    *)
(***************************************************************************)
\* remove_background(image); rembg says whether "from rembg import ..." works
\* (lazy_import sets remove to None when it does not).
hunyuan3d_remove_background(S, fault, rembg) ==
    LET fresh == S.hist.sessions + 1
        S1 == IF S.rembg_session = 0
              THEN [S EXCEPT !.rembg_session = fresh, !.hist.sessions = fresh]
              ELSE S
        S2 == [S1 EXCEPT !.obs.bg = TRUE]
    IN  IF ~rembg
        THEN [s |-> S, exc |-> NoFault.exc, ok |-> TRUE]
        ELSE IF S.rembg_session = 0 /\ fault.step = "new_session"
        THEN [s |-> S, exc |-> fault.exc, ok |-> FALSE]
        ELSE IF fault.step = "remove_background"
        THEN [s |-> S2, exc |-> fault.exc, ok |-> FALSE]
        ELSE [s |-> S2, exc |-> NoFault.exc, ok |-> TRUE]

\* the first half of load_models: the shape pipeline
hunyuan3d_load_shape(S, fault, jobNo, profile) ==
    LET S1 == [S EXCEPT !.obs.load = TRUE,
                        !.hist.firstReach.shape_pipeline = IF @ = 0 THEN jobNo ELSE @]
        fresh == S.hist.fpCalls.shape_pipeline + 1
        S2 == [S1 EXCEPT !.HY3D_PROFILE = profile,
                         !.hist.fpCalls.shape_pipeline = fresh,
                         !.obs.fp = @ \cup {"shape_pipeline"}]
        S3 == [S2 EXCEPT !.hist.fpOk.shape_pipeline = @ + 1,
                         !.hist.loadedBy.shape_pipeline = jobNo]
    IN  IF S.shape_pipeline # None
        THEN [s |-> S1, exc |-> NoFault.exc, ok |-> TRUE]
        ELSE IF fault.step = "from_pretrained"
        THEN [s |-> S2, exc |-> fault.exc, ok |-> FALSE]
        ELSE IF fault.step = "to_cuda"
        THEN [s |-> [S3 EXCEPT !.shape_pipeline = Instance(fresh, TRUE, FALSE, profile)],
              exc |-> fault.exc, ok |-> FALSE]
        ELSE [s |-> [S3 EXCEPT !.shape_pipeline = Instance(fresh, TRUE, TRUE, profile)],
              exc |-> NoFault.exc, ok |-> TRUE]

\* the second half of load_models: the texture pipeline
hunyuan3d_load_paint(S, fault, jobNo, generate_texture) ==
    LET S1 == [S EXCEPT !.hist.firstReach.paint_pipeline = IF @ = 0 THEN jobNo ELSE @]
        fresh == S.hist.fpCalls.paint_pipeline + 1
        S2 == [S1 EXCEPT !.hist.fpCalls.paint_pipeline = fresh,
                         !.obs.fp = @ \cup {"paint_pipeline"}]
        S3 == [S2 EXCEPT !.hist.fpOk.paint_pipeline = @ + 1,
                         !.hist.loadedBy.paint_pipeline = jobNo]
    IN  IF ~(Truthy(generate_texture) /\ S.paint_pipeline = None)
        THEN [s |-> S1, exc |-> NoFault.exc, ok |-> TRUE]
        ELSE IF fault.step = "paint_from_pretrained"
        THEN [s |-> S2, exc |-> fault.exc, ok |-> FALSE]
        ELSE IF fault.step = "paint_to_cuda"
        THEN [s |-> [S3 EXCEPT !.paint_pipeline = Instance(fresh, TRUE, FALSE, 0)],
              exc |-> fault.exc, ok |-> FALSE]
        ELSE [s |-> [S3 EXCEPT !.paint_pipeline = Instance(fresh, TRUE, TRUE, 0)],
              exc |-> NoFault.exc, ok |-> TRUE]

\* load_models(generate_texture, profile): returns both globals
hunyuan3d_load_models(S, fault, jobNo, generate_texture, profile) ==
    LET sh == hunyuan3d_load_shape(S, fault, jobNo, profile)
        pt == hunyuan3d_load_paint(sh.s, fault, jobNo, generate_texture)
    IN  IF ~sh.ok
        THEN sh
        ELSE IF ~pt.ok
        THEN pt
        ELSE [s |-> [pt.s EXCEPT !.obs.got =
                        <<pt.s.shape_pipeline.id, pt.s.paint_pipeline.id>>],
              exc |-> NoFault.exc, ok |-> TRUE]

hunyuan3d_clamp_profile(n) ==
    LET lo == IF 5 < n THEN 5 ELSE n   \* min(5, n)
    IN  IF 1 > lo THEN 1 ELSE lo       \* max(1, ...)

\* the except clause of handler()
hunyuan3d_except(e) ==
    IF Contains(Lower(e.msg), OutOfMemoryText)
    THEN ErrorResp(<<"GPU out of memory. Try increasing the memory profile (3-5).">>)
    ELSE ErrorResp(<<"Generation failed: ">> \o e.msg)

\* the temp files the job made stay on the disk when it raises
hunyuan3d_caught(St, e) ==
    [s |-> [St EXCEPT !.obs.raised = <<e>>, !.tempfiles = @ + St.obs.mkstemp],
     resp |-> hunyuan3d_except(e)]

hunyuan3d_success(file_size, generate_texture) ==
    [model_base64 |-> <<"base64", file_size>>, file_size |-> file_size,
     format |-> "glb", textured |-> generate_texture, execution_time |-> 1]

\* texturing whenever a texture pipeline is there
hunyuan3d_apply_textures_if_loaded(generate_texture, paint_pipe) ==
    paint_pipe # None

\* "if generate_texture and paint_pipe is not None"
hunyuan3d_apply_textures(generate_texture, paint_pipe) ==
    Truthy(generate_texture) /\ paint_pipe # None

\* background removal, the temp image, load_models, the two pipelines, the
\* export and the return of handler()
hunyuan3d_generate(S, fault, jobNo, generate_texture, do_remove_bg, profile, rembg, file_size) ==
    LET bg == IF Truthy(do_remove_bg)
              THEN hunyuan3d_remove_background(S, fault, rembg)
              ELSE [s |-> S, exc |-> NoFault.exc, ok |-> TRUE]
        Spng == [bg.s EXCEPT !.obs.mkstemp = @ + 1]
        ld == hunyuan3d_load_models(Spng, fault, jobNo, generate_texture, profile)
        paint_pipe == ld.s.paint_pipeline
        Sinf == [ld.s EXCEPT !.obs.infer = TRUE,
                             !.obs.arg = <<ld.s.shape_pipeline.env>>]
        textures == hunyuan3d_apply_textures(generate_texture, paint_pipe)
        Smesh == [Sinf EXCEPT !.obs.mesh = TRUE]
        Spt == IF textures THEN [Smesh EXCEPT !.obs.paint = TRUE] ELSE Smesh
        Sglb == [Spt EXCEPT !.obs.mkstemp = @ + 1]
        fail(St, e) == hunyuan3d_caught(St, e)
    IN  CASE ~bg.ok -> fail(bg.s, bg.exc)
          [] fault.step = "save" -> fail(Spng, fault.exc)
          [] ~ld.ok -> fail(ld.s, ld.exc)
          [] fault.step = "inference" -> fail(Sinf, fault.exc)
          [] textures /\ fault.step = "paint" -> fail(Spt, fault.exc)
          [] fault.step = "export" -> fail(Sglb, fault.exc)
          [] OTHER -> [s |-> Sglb, resp |-> hunyuan3d_success(file_size, generate_texture)]

\* handler() making the temp file for the image before it decodes the image
hunyuan3d_handler_tempfile_first(S, ev, fault, jobNo, rembg, file_size) ==
    LET input_data == ev.opts
        image_b64 == Get(input_data, "image", PyNone)
        generate_texture == Get(input_data, "generate_texture", PyBool(TRUE))
        do_remove_bg == Get(input_data, "remove_background", PyBool(TRUE))
        pf == int(Get(input_data, "profile", PyInt(3)))
        image == DecodeImage(image_b64)
    IN  CASE ev.input \notin {Absent, PyDict} ->
                hunyuan3d_caught(S,
                    Exc("AttributeError", <<ev.input.t, " object has no attribute 'get'">>))
          [] ~pf.ok -> hunyuan3d_caught(S, pf.exc)
          [] ~Truthy(image_b64) -> [s |-> S, resp |-> ErrorResp(NoImageText)]
          [] ~image.ok ->
                [s |-> [S EXCEPT !.obs.mkstemp = 1, !.tempfiles = @ + 1],
                 resp |-> DecodeFailed(image.exc)]
          [] OTHER ->
                hunyuan3d_generate([S EXCEPT !.obs.decoded = TRUE], fault, jobNo,
                                   generate_texture, do_remove_bg,
                                   hunyuan3d_clamp_profile(pf.val), rembg, file_size)

hunyuan3d_handler(S, ev, fault, jobNo, rembg, file_size) ==
    LET input_data == ev.opts
        image_b64 == Get(input_data, "image", PyNone)
        generate_texture == Get(input_data, "generate_texture", PyBool(TRUE))
        do_remove_bg == Get(input_data, "remove_background", PyBool(TRUE))
        pf == int(Get(input_data, "profile", PyInt(3)))
        image == DecodeImage(image_b64)
    IN  CASE ev.input \notin {Absent, PyDict} ->
                hunyuan3d_caught(S,
                    Exc("AttributeError", <<ev.input.t, " object has no attribute 'get'">>))
          [] ~pf.ok -> hunyuan3d_caught(S, pf.exc)
          [] ~Truthy(image_b64) -> [s |-> S, resp |-> ErrorResp(NoImageText)]
          [] ~image.ok -> [s |-> S, resp |-> DecodeFailed(image.exc)]
          [] OTHER ->
                hunyuan3d_generate([S EXCEPT !.obs.decoded = TRUE], fault, jobNo,
                                   generate_texture, do_remove_bg,
                                   hunyuan3d_clamp_profile(pf.val), rembg, file_size)

(***************************************************************************)
(* Jobs: the events the worker is handed, and the faults of the libraries. *)
(***************************************************************************)
Workers == {"triposr", "sf3d", "hunyuan3d"}

ImageValues ==
    {Absent, PyStr(""), PyStr("iVBORw0KGgo="), PyStr("aGVsbG8=")}

ForegroundRatios ==
    {Absent, PyFloat(Fin(50)), PyFloat(Fin(100)), PyFloat(Fin(49)), PyFloat(Fin(101)),
     PyStr("nan")}

McResolutions ==
    {Absent, PyInt(128), PyInt(512), PyInt(300), PyStr("abc")}

OutputFormats == {Absent, PyStr("OBJ"), PyInt(5)}

TextureResolutions ==
    {Absent, PyInt(2048), PyInt(700), PyInt(100), PyInt(4096), PyStr("abc")}

RemeshOptions == {Absent, PyStr("Quad"), PyNone}

TextureFlags == {Absent, PyBool(FALSE), PyStr("yes"), PyInt(0)}

BackgroundFlags == {Absent, PyBool(FALSE), PyStr("yes")}

Profiles ==
    {Absent, PyInt(1), PyInt(5), PyInt(0), PyInt(9), PyStr("abc")}

OptionsOf(w) ==
    CASE w = "triposr" ->
            [image : ImageValues, foreground_ratio : ForegroundRatios,
             mc_resolution : McResolutions, output_format : OutputFormats]
      [] w = "sf3d" ->
            [image : ImageValues, foreground_ratio : ForegroundRatios,
             texture_resolution : TextureResolutions, remesh_option : RemeshOptions]
      [] OTHER ->
            [image : ImageValues, generate_texture : TextureFlags,
             remove_background : BackgroundFlags, profile : Profiles]

\* the input dict of a job without options
NoOptions(w) == CHOOSE o \in OptionsOf(w) : \A k \in DOMAIN o : o[k] = Absent

\* event["input"] is a dict of options, or missing, or not a dict
EventsOf(w) ==
    [input : {PyDict}, opts : OptionsOf(w)]
        \cup [input : {Absent, PyNone}, opts : {NoOptions(w)}]

NoEvent == [input |-> Absent, opts |-> [image |-> Absent]]

StepsOf(w) ==
    CASE w = "triposr" ->
            {"remove_background", "resize_foreground", "from_pretrained",
             "set_chunk_size", "to_cuda", "inference", "extract_mesh", "export"}
      [] w = "sf3d" ->
            {"import", "new_session", "remove_background", "from_pretrained",
             "to_cuda", "eval", "new_session_load", "inference", "export"}
      [] OTHER ->
            {"new_session", "remove_background", "save", "from_pretrained",
             "to_cuda", "paint_from_pretrained", "paint_to_cuda", "inference",
             "paint", "export"}

FaultsOf(w) == {NoFault} \cup [step : StepsOf(w), exc : Exceptions]

\* the size of the exported file: the TripoSR handler returns a warning from 5 MB
FileSizesOf(w) == IF w = "triposr" THEN {1024, FiveMB} ELSE {1024}

(***************************************************************************)
(* The worker process.                                                     *)
(***************************************************************************)
Globals ==
    [model |-> model, rembg_session |-> rembg_session, SF3D |-> SF3D,
     shape_pipeline |-> shape_pipeline, paint_pipeline |-> paint_pipeline,
     HY3D_PROFILE |-> HY3D_PROFILE, tempfiles |-> tempfiles,
     obs |-> NoObs, hist |-> hist]

\* the job's handler() has returned r.resp and left the globals r.s
Returned(r) ==
    /\ pc' = "result"
    /\ resp' = r.resp
    /\ model' = r.s.model
    /\ rembg_session' = r.s.rembg_session
    /\ SF3D' = r.s.SF3D
    /\ shape_pipeline' = r.s.shape_pipeline
    /\ paint_pipeline' = r.s.paint_pipeline
    /\ HY3D_PROFILE' = r.s.HY3D_PROFILE
    /\ tempfiles' = r.s.tempfiles
    /\ obs' = r.s.obs
    /\ hist' = r.s.hist
    /\ UNCHANGED <<worker, jobs, event>>

Init ==
    /\ worker \in Workers
    /\ pc = "idle"
    /\ jobs = 0
    /\ event = NoEvent
    /\ resp = NoResp
    /\ model = None
    /\ rembg_session = 0
    /\ SF3D = FALSE
    /\ shape_pipeline = None
    /\ paint_pipeline = None
    /\ HY3D_PROFILE = 0
    /\ tempfiles = 0
    /\ obs = NoObs
    /\ hist = NoHist

\* runpod hands the worker its next job
Receive ==
    /\ pc = "idle"
    /\ jobs < MaxJobs
    /\ event' \in EventsOf(worker)
    /\ jobs' = jobs + 1
    /\ pc' = "job"
    /\ UNCHANGED <<worker, resp, model, rembg_session, SF3D, shape_pipeline,
                   paint_pipeline, HY3D_PROFILE, tempfiles, obs, hist>>

HandleTripoSR ==
    /\ worker = "triposr"
    /\ pc = "job"
    /\ \E fault \in FaultsOf("triposr"), file_size \in FileSizesOf("triposr") :
          Returned(triposr_handler(Globals, event, fault, jobs, file_size))

HandleSF3D ==
    /\ worker = "sf3d"
    /\ pc = "job"
    /\ \E fault \in FaultsOf("sf3d"), file_size \in FileSizesOf("sf3d") :
          Returned(sf3d_handler(Globals, event, fault, jobs, file_size))

HandleHunyuan3D ==
    /\ worker = "hunyuan3d"
    /\ pc = "job"
    /\ \E fault \in FaultsOf("hunyuan3d"), rembg \in BOOLEAN,
          file_size \in FileSizesOf("hunyuan3d") :
          Returned(hunyuan3d_handler(Globals, event, fault, jobs, rembg, file_size))

\* runpod sends the response and the worker waits for the next job
Respond ==
    /\ pc = "result"
    /\ pc' = "idle"
    /\ event' = NoEvent
    /\ resp' = NoResp
    /\ obs' = NoObs
    /\ UNCHANGED <<worker, jobs, model, rembg_session, SF3D, shape_pipeline,
                   paint_pipeline, HY3D_PROFILE, tempfiles, hist>>

Next ==
    \/ Receive
    \/ HandleTripoSR
    \/ HandleSF3D
    \/ HandleHunyuan3D
    \/ Respond

Spec == Init /\ [][Next]_vars

(***************************************************************************)
(* Properties.                                                             *)
(***************************************************************************)
IsSuccess(r) ==
    /\ {"model_base64", "file_size"} \subseteq DOMAIN r
    /\ "error" \notin DOMAIN r

IsText(x) == x \in Seq(STRING)

IsError(r) == DOMAIN r = {"error"} /\ IsText(r.error)

IsErrorText(r, txt) == DOMAIN r = {"error"} /\ r.error = txt

Requested(key) == event.opts[key]

C2_NoImageAlwaysReported ==
    (pc = "result" /\ event.input \in {PyDict, Absent} /\ ~Truthy(Requested("image")))
        => IsErrorText(resp, NoImageText)

\* C3: TripoSR and SF3D call resize_foreground with the requested ratio when
\* it is in [0.5, 1.0], with 0.85 when it is below, above or absent; so the
\* ratio passed is always in [0.5, 1.0].
InUnitRange(r) == r.k = "fin" /\ 50 <= r.h /\ r.h <= 100

C3_ForegroundRatioInRange ==
    (pc = "result" /\ worker \in {"triposr", "sf3d"} /\ obs.resize # <<>>)
        => /\ InUnitRange(obs.resize[1])
           /\ Requested("foreground_ratio") = Absent => obs.resize[1] = Fin(85)
           /\ Requested("foreground_ratio").t = "float" =>
                obs.resize[1] = IF InUnitRange(Requested("foreground_ratio").f)
                                THEN Requested("foreground_ratio").f
                                ELSE Fin(85)

\* C4: TripoSR extracts the mesh at the requested mc_resolution when that is
\* 128, 256 or 512, and at 256 for every other integer and when it is absent:
\* extract_mesh never gets another resolution.
C4_McResolutionClamped ==
    (pc = "result" /\ worker = "triposr" /\ obs.arg # <<>>)
        => /\ obs.arg[1] \in {128, 256, 512}
           /\ Requested("mc_resolution") = Absent => obs.arg[1] = 256
           /\ Requested("mc_resolution").t = "int" =>
                obs.arg[1] = IF Requested("mc_resolution").n \in {128, 256, 512}
                             THEN Requested("mc_resolution").n
                             ELSE 256

C4_Witness ==
    /\ pc = "result"
    /\ worker = "triposr"
    /\ Requested("mc_resolution") = PyInt(300)
    /\ obs.arg = <<256>>

\* the singleton of a name
Single(m) ==
    CASE m = "model" -> model
      [] m = "shape_pipeline" -> shape_pipeline
      [] OTHER -> paint_pipeline

\* the instance the load step handed the job for singleton m
GotOf(o, m) == IF m = "paint_pipeline" THEN o.got[2] ELSE o.got[1]

\* C5 as stated: each model is loaded with from_pretrained at most once, by
\* the first job that reaches the load step; later jobs get that instance.
C5_LoadedByFirstJob ==
    \A m \in Singletons :
        /\ hist.fpCalls[m] <= 1
        /\ hist.loadedBy[m] # 0 => hist.loadedBy[m] = hist.firstReach[m]

\* C5, amended: from_pretrained returns at most once per singleton; once a
\* singleton is set no job calls from_pretrained for it again or replaces it,
\* and a job that gets through the load step receives that same instance.
C5_LoadedOnce ==
    [][\A m \in Singletons :
          /\ hist'.fpOk[m] <= 1
          /\ Single(m) # None =>
                /\ Single(m)' = Single(m)
                /\ hist'.fpCalls[m] = hist.fpCalls[m]
                /\ obs'.got # <<>> => GotOf(obs', m) = Single(m).id]_vars

C5_Witness ==
    /\ pc = "result"
    /\ jobs = 2
    /\ hist.loadedBy["model"] = 1
    /\ obs.fp = {}
    /\ obs.got = <<model.id>>
    /\ obs.mesh

\* C6: an out-of-memory failure after the image was decoded (TripoSR: by the
\* class of the exception; SF3D and Hunyuan3D-2: by "out of memory" in its
\* text, in any case) gets the handler's "GPU out of memory." error; every
\* other exception raised after decoding gets "Generation failed: <text>".
OutOfMemoryTexts ==
    { <<"CUDA ", "o", "u", "t", " ", "o", "f", " ", "m", "e", "m", "o", "r", "y">>,
      <<"CUDA ", "O", "u", "t", " ", "O", "f", " ", "M", "e", "m", "o", "r", "y">> }

OutOfMemoryAdvice ==
    [w \in Workers |->
        CASE w = "triposr" -> <<"GPU out of memory. Try a lower resolution (128 or 256).">>
          [] w = "sf3d" ->
                <<"GPU out of memory. Try a lower texture_resolution (512 or 1024).">>
          [] OTHER -> <<"GPU out of memory. Try increasing the memory profile (3-5).">>]

IsOutOfMemory(w, e) ==
    IF w = "triposr" THEN e.cls = "OutOfMemoryError" ELSE e.msg \in OutOfMemoryTexts

C6_OutOfMemoryReported ==
    (pc = "result" /\ obs.decoded /\ obs.raised # <<>>)
        => IF IsOutOfMemory(worker, obs.raised[1])
           THEN IsErrorText(resp, OutOfMemoryAdvice[worker])
           ELSE IsErrorText(resp, <<"Generation failed: ">> \o obs.raised[1].msg)

C6_Witness ==
    /\ pc = "result"
    /\ worker = "sf3d"
    /\ obs.decoded
    /\ obs.raised # <<>>
    /\ obs.raised[1].cls = "RuntimeError"
    /\ obs.raised[1].msg \in OutOfMemoryTexts
    /\ IsErrorText(resp, OutOfMemoryAdvice["sf3d"])

\* C7: SF3D bakes at 512, 1024 or 2048 whatever integer is requested, and a
\* success response echoes the resolution the pipeline was given.
C7_TextureResolutionDocumented ==
    (pc = "result" /\ worker = "sf3d" /\ obs.arg # <<>>)
        => /\ obs.arg[1] \in {512, 1024, 2048}
           /\ IsSuccess(resp) => resp.texture_resolution = obs.arg[1]

\* C8: the memory profile the Hunyuan3D-2 shape pipeline runs under in a job
\* is that job's requested profile, clamped to 1..5 (3 when absent).
RequestedProfile ==
    CASE Requested("profile") = Absent -> 3
      [] Requested("profile").n < 1 -> 1
      [] Requested("profile").n > 5 -> 5
      [] OTHER -> Requested("profile").n

C8_ProfileOfTheJob ==
    (pc = "result" /\ worker = "hunyuan3d" /\ obs.infer)
        => obs.arg = <<RequestedProfile>>

\* C9: a job rejected for its image ("No image provided", "Failed to decode
\* image") changes no singleton, makes no temp file and invokes neither the
\* background removal nor a pipeline nor a load.
Rejected(r) ==
    /\ IsError(r)
    /\ r.error = NoImageText \/ r.error[1] = "Failed to decode image: "

C9_RejectedBeforePipeline ==
    [][(pc = "job" /\ pc' = "result" /\ Rejected(resp'))
          => /\ model' = model
             /\ shape_pipeline' = shape_pipeline
             /\ paint_pipeline' = paint_pipeline
             /\ rembg_session' = rembg_session
             /\ tempfiles' = tempfiles
             /\ obs'.mkstemp = 0
             /\ obs'.fp = {}
             /\ ~obs'.bg /\ ~obs'.load /\ ~obs'.infer /\ ~obs'.paint]_vars

C9_Witness ==
    /\ pc = "result"
    /\ worker = "hunyuan3d"
    /\ jobs = 2
    /\ Rejected(resp)
    /\ resp.error[1] = "Failed to decode image: "
    /\ shape_pipeline # None
    /\ tempfiles = 0

\* C10: in Hunyuan3D-2 the texture pipeline is invoked on a job's mesh exactly
\* when the job's generate_texture is truthy (for a job whose shape pipeline
\* returned a mesh; without a mesh it is not invoked), whether or not an
\* earlier job loaded it; it is loaded only by a job that asks for textures;
\* and the textured field of a success is truthy exactly when the mesh was
\* textured.
WantsTexture(ev) ==
    IF ev.opts.generate_texture = Absent THEN TRUE ELSE Truthy(ev.opts.generate_texture)

FullyInitialised(x) == x.cfg /\ x.cuda

C11_SingletonFullyInitialised ==
    pc = "idle" => \A m \in Singletons : Single(m) # None => FullyInitialised(Single(m))

====
